---- MODULE Spec2Model ----
(***************************************************************************)
(* Model of es_rebalance: the shard exchange planner (class Plan in        *)
(* es_rebalance/rebalance.py) and its command line driver (main in         *)
(* es_rebalance/__main__.py).                                              *)
(*                                                                         *)
(* Numbers.  The program computes disk fractions, size ratios and the      *)
(* variance in floating point.  The model computes the same quantities as  *)
(* exact rationals, compared by cross multiplication.  On the inputs drawn *)
(* below the two agree: capacities are powers of two (or 100 in the        *)
(* documented scenario), so no compared pair of values is closer than      *)
(* 1/1600 unless it is exactly equal, and the thresholds that can be hit   *)
(* exactly (50%, 25%) are exactly representable.  The one threshold whose  *)
(* float differs from its exact value in a way that the inputs can tell    *)
(* is 1 - 90/100, which is 0.09999999999999998, below the float 0.1 that a *)
(* size ratio of exactly one tenth evaluates to: see FloatBelow.           *)
(***************************************************************************)
EXTENDS Integers, Sequences, FiniteSets, TLC

VARIABLES
    es,                       \* Plan.es: the cluster, as the inventory it reports
    nodes,                    \* name -> NodeInfo record (rack, capacity, shards, used)
    nodes_by_size,            \* Plan.nodes_by_size: sequence of node names
    operations,               \* Plan.operations: sequence of move commands
    moved_shards,             \* Plan.moved_shards: set of <<index, shard>>
    shard_fraction_threshold, \* Plan.shard_fraction_threshold, in hundredths
    node_fraction_threshold,  \* Plan.node_fraction_threshold, in hundredths
    result,                   \* outcome of the latest plan_step call
    prev,                     \* history: outcome of the call before the latest
    reroute,                  \* latest call of es.cluster.reroute seen by the sink
    pc,                       \* position of main
    iterations,               \* args.iterations
    execute,                  \* args.execute
    i,                        \* loop variable of main
    reported,                 \* number logged by main when it stops early
    calls                     \* history: plan_step calls made by main

planner == <<nodes, nodes_by_size, operations, moved_shards,
             shard_fraction_threshold, node_fraction_threshold>>
driver == <<pc, iterations, execute, i, reported, calls>>
vars == <<es, nodes, nodes_by_size, operations, moved_shards,
          shard_fraction_threshold, node_fraction_threshold,
          result, prev, reroute, pc, iterations, execute, i, reported, calls>>

----
(* Bounds of the explored inputs *)

MaxNodes == 3
MaxShards == 4
NumRacks == 2
MaxIterations == 3
MaxExecs == 2

\* disk.total values of the generated fleets
Caps == {4, 16}
\* store values of the generated shards
Sizes == {1, 2, 4}
\* store values of the shards of the fleets with shards in any state
StateSizes == {1, 4}
\* store values of the shards of the fleets run with the default thresholds
TenthSizes == {1, 10, 12}
\* store values of the shards of the nearly full fleets
FullSizes == {1, 4, 5}
\* (--shard-percentage, --node-percentage) pairs of the generated fleets
Thresholds == {<<50, 10>>, <<75, 10>>, <<50, 25>>}
\* the same for the documented scenario, whose thresholds are the defaults
ScenarioThresholds == {<<90, 10>>, <<50, 10>>}

----
(* Arithmetic helpers *)

Abs(x) == IF x < 0 THEN -x ELSE x

RECURSIVE Gcd(_, _)
Gcd(a, b) == IF b = 0 THEN a ELSE Gcd(b, a % b)

Lcm(a, b) == (a * b) \div Gcd(a, b)

RECURSIVE SumSeq(_)
SumSeq(s) == IF s = <<>> THEN 0 ELSE Head(s) + SumSeq(Tail(s))

RECURSIVE ConcatAll(_)
ConcatAll(ss) == IF ss = <<>> THEN <<>> ELSE Head(ss) \o ConcatAll(Tail(ss))

Reverse(s) == [k \in 1..Len(s) |-> s[Len(s) + 1 - k]]

\* list.remove(x): drops the first element equal to x
RemoveFirst(s, x) ==
    LET p == CHOOSE k \in 1..Len(s) : s[k] = x /\ \A j \in 1..(k-1) : s[j] # x
    IN  SubSeq(s, 1, p - 1) \o SubSeq(s, p + 1, Len(s))

----
(* NodeInfo and Shard *)

\* Shard(index, shard, prirep, store, can_move)
Shard(index, shard, prirep, store, can_move) ==
    [index |-> index, shard |-> shard, prirep |-> prirep,
     store |-> store, can_move |-> can_move]

\* the key of moved_shards and of the rack rule: (index, shard number)
Ident(s) == <<s.index, s.shard>>

\* list.sort(key=store, reverse=True): stable, largest first
SortShards(s) ==
    LET n == Len(s)
        rank(k) == 1 + Cardinality({j \in 1..n :
                        \/ s[j].store > s[k].store
                        \/ s[j].store = s[k].store /\ j < k})
    IN  [p \in 1..n |-> s[CHOOSE k \in 1..n : rank(k) = p]]

Stores(s) == [k \in 1..Len(s) |-> s[k].store]

\* resort keeping the order of the shard list
resort_SumOnly(node) ==
    [node EXCEPT !.used = SumSeq(Stores(node.shards))]

\* NodeInfo.resort
resort(node) ==
    [node EXCEPT !.shards = SortShards(node.shards),
                 !.used = SumSeq(Stores(node.shards))]

\* a.used / a.capacity > b.used / b.capacity
FracGt(a, b) == a.used * b.capacity > b.used * a.capacity
FracEq(a, b) == a.used * b.capacity = b.used * a.capacity

\* abs(a.used / a.capacity - b.used / b.capacity) < thr / 100
FracClose(a, b, thr) ==
    Abs(a.used * b.capacity - b.used * a.capacity) * 100
        < thr * a.capacity * b.capacity

\* nodes_by_size.sort(key=used / capacity, reverse=True): stable
SortNodes(N, order) ==
    LET n == Len(order)
        rank(k) == 1 + Cardinality({j \in 1..n :
                        \/ FracGt(N[order[j]], N[order[k]])
                        \/ FracEq(N[order[j]], N[order[k]]) /\ j < k})
    IN  [p \in 1..n |-> order[CHOOSE k \in 1..n : rank(k) = p]]

\* the loop of Plan._sort over the nodes S still to resort
RECURSIVE ResortAll(_, _)
ResortAll(N, S) ==
    IF S = {} THEN N
    ELSE LET nm == CHOOSE x \in S : TRUE
         IN  ResortAll([N EXCEPT ![nm] = resort(@)], S \ {nm})

\* Plan._sort: the node map after every node's resort
SortedNodes(N) == ResortAll(N, DOMAIN N)

\* Plan._sort: the node order after the sort
SortedOrder(N, order) == SortNodes(SortedNodes(N), order)

----
(* Plan.percent_used_variance *)

RECURSIVE LcmSeq(_)
LcmSeq(s) == IF s = <<>> THEN 1 ELSE Lcm(Head(s), LcmSeq(Tail(s)))

\* common denominator of the fractions of all nodes
Denominator(N, order) == LcmSeq([k \in 1..Len(order) |-> N[order[k]].capacity])

\* sum of the stores of the pairs of ps that name node nm
RECURSIVE PairSum(_, _)
PairSum(ps, nm) ==
    IF ps = <<>> THEN 0
    ELSE (IF Head(ps)[1] = nm THEN Head(ps)[2].store ELSE 0) + PairSum(Tail(ps), nm)

\* TheSum without the subtraction of the excluded shards
TheSum_NoExclude(N, nm, exclude_shards, include_shards) ==
    N[nm].used + PairSum(include_shards, nm)

\* the_sum of the inner function percentage(node)
TheSum(N, nm, exclude_shards, include_shards) ==
    N[nm].used - PairSum(exclude_shards, nm) + PairSum(include_shards, nm)

\* statistics.pvariance of the fractions, times (n * Denominator)^2, which
\* is the same positive number for every evaluation on one fleet
percent_used_variance(N, order, exclude_shards, include_shards) ==
    LET n == Len(order)
        L == Denominator(N, order)
        X == [k \in 1..n |->
                TheSum(N, order[k], exclude_shards, include_shards)
                    * (L \div N[order[k]].capacity)]
        S == SumSeq(X)
    IN  n * SumSeq([k \in 1..n |-> X[k] * X[k]]) - S * S

----
(* Candidate scans *)

\* Candidate without the can_move test
Candidate_IgnoresCanMove(s, moved) == Ident(s) \notin moved

\* a shard the scans do not skip
Candidate(s, moved) == Ident(s) \notin moved /\ s.can_move

\* the (node, shard) pairs one node contributes to a scan, in list order
Yield(nm, shards, moved) ==
    LET Ok(s) == Candidate(s, moved)
        sel == SelectSeq(shards, Ok)
    IN  [k \in 1..Len(sel) |-> <<nm, sel[k]>>]

\* find_big_shards stopping also at a node exactly the threshold away
find_big_shards_StopsAtThreshold(N, order, moved, nthr) ==
    LET n == Len(order)
        Stop(k) == Abs(N[order[n]].used * N[order[k]].capacity
                        - N[order[k]].used * N[order[n]].capacity) * 100
                    <= nthr * N[order[n]].capacity * N[order[k]].capacity
        stops == {k \in 1..n : Stop(k)}
        last == IF stops = {} THEN n
                ELSE (CHOOSE k \in stops : \A j \in stops : k <= j) - 1
    IN  ConcatAll([k \in 1..last |-> Yield(order[k], N[order[k]].shards, moved)])

\* Plan.find_big_shards
find_big_shards(N, order, moved, nthr) ==
    LET n == Len(order)
        Stop(k) == FracClose(N[order[n]], N[order[k]], nthr)
        stops == {k \in 1..n : Stop(k)}
        last == IF stops = {} THEN n
                ELSE (CHOOSE k \in stops : \A j \in stops : k <= j) - 1
    IN  ConcatAll([k \in 1..last |-> Yield(order[k], N[order[k]].shards, moved)])

\* find_small_shards going through the shards of a node largest first
find_small_shards_LargestFirst(N, order, moved, big_node) ==
    LET rev == Reverse(order)
        n == Len(rev)
        at == CHOOSE k \in 1..n : rev[k] = big_node
    IN  ConcatAll([k \in 1..(at - 1) |-> Yield(rev[k], N[rev[k]].shards, moved)])

\* Plan.find_small_shards
find_small_shards(N, order, moved, big_node) ==
    LET rev == Reverse(order)
        n == Len(rev)
        at == CHOOSE k \in 1..n : rev[k] = big_node
    IN  ConcatAll([k \in 1..(at - 1) |->
            Yield(rev[k], Reverse(N[rev[k]].shards), moved)])

----
(* Plan.can_exchange_shards *)

\* the division of the size test fails (ZeroDivisionError): the larger
\* of the two stores is zero
can_exchange_raises(n1, s1, n2, s2) ==
    /\ n1 # n2
    /\ (IF s1.store > s2.store THEN s1.store ELSE s2.store) = 0

\* NotWorthSwapping with the threshold taken as shard_percentage / 100
NotWorthSwapping_PercentAsFraction(s1, s2, sthr) ==
    LET big == IF s1.store > s2.store THEN s1.store ELSE s2.store
        small == IF s1.store > s2.store THEN s2.store ELSE s1.store
    IN  small * 100 > (100 - sthr) * big

\* the thresholds, in hundredths, whose float 1 - shard_percentage / 100 is
\* below the float of the exact value: 1 - 90/100 = 0.09999999999999998 and
\* 1 - 80/100 = 0.19999999999999996
FloatBelow == {10, 20}

\* size_fraction > self.shard_fraction_threshold; a ratio that is exactly
\* the threshold evaluates to a float above a threshold of FloatBelow
NotWorthSwapping(s1, s2, sthr) ==
    LET big == IF s1.store > s2.store THEN s1.store ELSE s2.store
        small == IF s1.store > s2.store THEN s2.store ELSE s1.store
    IN  IF sthr \in FloatBelow
        THEN small * 100 >= sthr * big
        ELSE small * 100 > sthr * big

\* TooBig testing the first node only
TooBig_FirstNodeOnly(N, n1, s1, n2, s2) ==
    N[n1].used + s2.store > N[n1].capacity

\* "Will the shards fit?" fails
TooBig(N, n1, s1, n2, s2) ==
    \/ N[n1].used + s2.store > N[n1].capacity
    \/ N[n2].used + s1.store > N[n2].capacity

\* RackConflict with the destination node skipped like the source node
RackConflict_SkipsDestination(N, src, s, dst) ==
    \E nm \in DOMAIN N :
        /\ nm # src
        /\ nm # dst
        /\ N[nm].rack = N[dst].rack
        /\ \E k \in 1..Len(N[nm].shards) : Ident(N[nm].shards[k]) = Ident(s)

\* moving shard s from node src to node dst meets a copy of s on the rack of dst
RackConflict(N, src, s, dst) ==
    \E nm \in DOMAIN N :
        /\ nm # src
        /\ N[nm].rack = N[dst].rack
        /\ \E k \in 1..Len(N[nm].shards) : Ident(N[nm].shards[k]) = Ident(s)

\* can_exchange_shards without the test of the usages of the two nodes
can_exchange_shards_NoSimilarity(N, sthr, nthr, n1, s1, n2, s2) ==
    /\ n1 # n2
    /\ ~NotWorthSwapping(s1, s2, sthr)
    /\ ~TooBig(N, n1, s1, n2, s2)
    /\ ~RackConflict(N, n1, s1, n2)
    /\ ~RackConflict(N, n2, s2, n1)

\* can_exchange_shards without the rack test of the second shard
can_exchange_shards_OneDirection(N, sthr, nthr, n1, s1, n2, s2) ==
    /\ n1 # n2
    /\ ~NotWorthSwapping(s1, s2, sthr)
    /\ ~FracClose(N[n1], N[n2], nthr)
    /\ ~TooBig(N, n1, s1, n2, s2)
    /\ ~RackConflict(N, n1, s1, n2)

\* can_exchange_shards without the two rack tests
can_exchange_shards_NoRack(N, sthr, nthr, n1, s1, n2, s2) ==
    /\ n1 # n2
    /\ ~NotWorthSwapping(s1, s2, sthr)
    /\ ~FracClose(N[n1], N[n2], nthr)
    /\ ~TooBig(N, n1, s1, n2, s2)

can_exchange_shards(N, sthr, nthr, n1, s1, n2, s2) ==
    /\ n1 # n2
    /\ ~NotWorthSwapping(s1, s2, sthr)
    /\ ~FracClose(N[n1], N[n2], nthr)
    /\ ~TooBig(N, n1, s1, n2, s2)
    /\ ~RackConflict(N, n1, s1, n2)
    /\ ~RackConflict(N, n2, s2, n1)

----
(* Plan.plan_exchange *)

\* Move naming the two nodes the wrong way round
Move_Reversed(s, from, to) ==
    [index |-> s.index, shard |-> s.shard, from_node |-> to, to_node |-> from]

Move(s, from, to) ==
    [index |-> s.index, shard |-> s.shard, from_node |-> from, to_node |-> to]

\* the two commands appended to self.operations
ExchangeCommands(n1, s1, n2, s2) == <<Move(s1, n1, n2), Move(s2, n2, n1)>>

\* Swapped without the removal from the second node
Swapped_KeepsSecond(N, n1, s1, n2, s2) ==
    [N EXCEPT ![n1].shards = Append(RemoveFirst(@, s1), s2),
              ![n2].shards = Append(@, s1)]

\* Swapped without the append of the first shard to the second node
Swapped_LosesFirst(N, n1, s1, n2, s2) ==
    [N EXCEPT ![n1].shards = Append(RemoveFirst(@, s1), s2),
              ![n2].shards = RemoveFirst(@, s2)]

\* the shard lists after the two remove/append pairs, before the sort
Swapped(N, n1, s1, n2, s2) ==
    [N EXCEPT ![n1].shards = Append(RemoveFirst(@, s1), s2),
              ![n2].shards = Append(RemoveFirst(@, s2), s1)]

\* MovedBy without the second shard
MovedBy_FirstOnly(s1, s2) == {Ident(s1)}

\* the identities added to self.moved_shards
MovedBy(s1, s2) == {Ident(s1), Ident(s2)}

\* plan_exchange without the final self._sort()
plan_exchange_NoSort(N, order, ops, moved, n1, s1, n2, s2) ==
    [nodes |-> Swapped(N, n1, s1, n2, s2),
     order |-> order,
     operations |-> ops \o ExchangeCommands(n1, s1, n2, s2),
     moved |-> moved \cup MovedBy(s1, s2)]

plan_exchange(N, order, ops, moved, n1, s1, n2, s2) ==
    LET N2 == Swapped(N, n1, s1, n2, s2)
    IN  [nodes |-> SortedNodes(N2),
         order |-> SortedOrder(N2, order),
         operations |-> ops \o ExchangeCommands(n1, s1, n2, s2),
         moved |-> moved \cup MovedBy(s1, s2)]

----
(* Plan.plan_step *)

\* the (big node, big shard, small node, small shard) tuples in the order
\* in which the two nested loops of plan_step visit them
ScanPairs(N, order, moved, nthr) ==
    LET bigs == find_big_shards(N, order, moved, nthr)
    IN  ConcatAll([b \in 1..Len(bigs) |->
            LET smalls == find_small_shards(N, order, moved, bigs[b][1])
            IN  [k \in 1..Len(smalls) |->
                    <<bigs[b][1], bigs[b][2], smalls[k][1], smalls[k][2]>>]])

\* exchanged_pvariance without the include_shards argument
exchanged_pvariance_NoInclude(N, order, n1, s1, n2, s2) ==
    percent_used_variance(N, order, << <<n1, s1>>, <<n2, s2>> >>, <<>>)

\* the variance with the two shards of the pair exchanged
exchanged_pvariance(N, order, n1, s1, n2, s2) ==
    percent_used_variance(N, order,
        << <<n1, s1>>, <<n2, s2>> >>, << <<n2, s1>>, <<n1, s2>> >>)

\* SizeSkipped skipping only a small shard that is the larger one
SizeSkipped_OnlyLarger(p) == p[4].store > p[2].store

\* the first test of the loop body: the small shard is not the smaller one
SizeSkipped(p) == p[4].store >= p[2].store

\* the pair gets to can_exchange_shards, whose division fails
CallRaises(p) == ~SizeSkipped(p) /\ can_exchange_raises(p[1], p[2], p[3], p[4])

\* the three tests of the loop body all let the pair through
Accepted(N, order, sthr, nthr, p) ==
    /\ ~SizeSkipped(p)
    /\ can_exchange_shards(N, sthr, nthr, p[1], p[2], p[3], p[4])
    /\ ~(exchanged_pvariance(N, order, p[1], p[2], p[3], p[4])
            >= percent_used_variance(N, order, <<>>, <<>>))

\* plan_step forgetting the moved shards when it finds no pair
plan_step_ForgetsMoved(N, order, ops, moved, sthr, nthr) ==
    LET same == [nodes |-> N, order |-> order, operations |-> ops, moved |-> moved]
    IN  IF order = <<>>
        THEN [ret |-> "raised", plan |-> same]
        ELSE LET pairs == ScanPairs(N, order, moved, nthr)
                 hits == {k \in 1..Len(pairs) : Accepted(N, order, sthr, nthr, pairs[k])}
             IN  IF hits = {}
                 THEN [ret |-> "false", plan |-> [same EXCEPT !.moved = {}]]
                 ELSE LET p == pairs[CHOOSE k \in hits : \A j \in hits : k <= j]
                      IN  [ret |-> "true",
                           plan |-> plan_exchange(N, order, ops, moved,
                                                  p[1], p[2], p[3], p[4])]

\* the outcome of one call: what it returns and the planner state it leaves
plan_step(N, order, ops, moved, sthr, nthr) ==
    LET same == [nodes |-> N, order |-> order, operations |-> ops, moved |-> moved]
    IN  IF order = <<>>
        THEN \* statistics.pvariance of no data raises StatisticsError
             [ret |-> "raised", plan |-> same]
        ELSE LET pairs == ScanPairs(N, order, moved, nthr)
                 hits == {k \in 1..Len(pairs) : Accepted(N, order, sthr, nthr, pairs[k])}
                 fails == {k \in 1..Len(pairs) : CallRaises(pairs[k])}
             IN  IF \E k \in fails : \A j \in hits : k < j
                 THEN \* ZeroDivisionError leaves plan_step before any commit
                      [ret |-> "raised", plan |-> same]
                 ELSE IF hits = {}
                 THEN [ret |-> "false", plan |-> same]
                 ELSE LET p == pairs[CHOOSE k \in hits : \A j \in hits : k <= j]
                      IN  [ret |-> "true",
                           plan |-> plan_exchange(N, order, ops, moved,
                                                  p[1], p[2], p[3], p[4])]

----
(* Plan.__init__: the model built from the inventory *)

\* store of a shard whose size ES reports as null
NoStore == -1

RawNode(name, box_type, rack_id, disk_total) ==
    [name |-> name, box_type |-> box_type, rack_id |-> rack_id,
     disk_total |-> disk_total]

\* a row of cat.shards; node and to are the two node names of a
\* RELOCATING row ("node -> ip id to"), node 0 is no node (unassigned)
RawShard(index, shard, prirep, store, state, node, to) ==
    [index |-> index, shard |-> shard, prirep |-> prirep, store |-> store,
     state |-> state, node |-> node, to |-> to]

\* shard_nodes keeping the source node only
shard_nodes_SourceOnly(rs) == <<rs.node>>

\* shard_nodes of the loop over raw_shards
shard_nodes(rs) ==
    IF rs.state = "RELOCATING" THEN <<rs.node, rs.to>> ELSE <<rs.node>>

\* the Shard appended for a row
ShardOf(rs) ==
    Shard(rs.index, rs.shard, rs.prirep,
          IF rs.store # NoStore THEN rs.store ELSE 0,
          rs.state = "STARTED")

\* the shards appended to node nm, in the order of the rows
AppendedTo(nm, raw_shards) ==
    ConcatAll([j \in 1..Len(raw_shards) |->
        LET sn == shard_nodes(raw_shards[j])
            IsNm(x) == x = nm
        IN  [k \in 1..Len(SelectSeq(sn, IsNm)) |-> ShardOf(raw_shards[j])]])

\* the node map and the node list that the constructor hands to self._sort()
Plan__init__(raw_nodes, raw_shards, box_type) ==
    LET InTier(rn) == rn.box_type = box_type
        tier == SelectSeq(raw_nodes, InTier)
        order0 == [k \in 1..Len(tier) |-> tier[k].name]
        N0 == [nm \in {tier[k].name : k \in 1..Len(tier)} |->
                LET rn == tier[CHOOSE k \in 1..Len(tier) : tier[k].name = nm]
                IN  [rack |-> rn.rack_id, capacity |-> rn.disk_total,
                     shards |-> AppendedTo(nm, raw_shards), used |-> 0]]
    IN  [nodes |-> N0, order |-> order0]

----
(* The inventories explored *)

Inventory(raw_nodes, raw_shards) == [raw_nodes |-> raw_nodes, raw_shards |-> raw_shards]

\* n nodes of the tier, one per rack, of the given capacities
SizeFleet(n, caps) == [k \in 1..n |-> RawNode(k, "hot", k, caps[k])]

\* k started primaries of distinct identities; f gives store and node
SizeShards(k, f) ==
    [j \in 1..k |-> RawShard("a", j, "p", f[j][1], "STARTED", f[j][2], 0)]

\* some inventory of nodes, one per rack, of capacities among capset,
\* holding started primaries listed largest first, satisfies P
SomeSizeInventory(capset, P(_)) ==
    \E n \in 0..MaxNodes, k \in 0..MaxShards :
        \E caps \in [1..n -> capset], f \in [1..k -> Sizes \X (1..n)] :
            /\ \A j \in 1..(k-1) : f[j][1] >= f[j+1][1]
            /\ P(Inventory(SizeFleet(n, caps), SizeShards(k, f)))

\* some inventory of a small and a large node, holding one shard more than
\* the other fleets, of sizes that fill the nodes, satisfies P
SomeFullInventory(P(_)) ==
    \E f \in [1..(MaxShards + 1) -> FullSizes \X (1..2)] :
        /\ \A j \in 1..MaxShards : f[j][1] >= f[j+1][1]
        /\ P(Inventory(SizeFleet(2, <<4, 16>>), SizeShards(MaxShards + 1, f)))

\* store of the copies of an index in the rack fleets
RackStore(index) == IF index = "a" THEN 4 ELSE IF index = "c" THEN 2 ELSE 1

\* n nodes of the tier and of one capacity, on the given racks
RackFleet(n, racks) == [k \in 1..n |-> RawNode(k, "hot", racks[k], 16)]

\* k started copies of the shards a/0, b/0 and c/0, the first copy of each being
\* the primary; f gives index and node
RackShards(k, f) ==
    [j \in 1..k |->
        RawShard(f[j][1], 0,
                 IF \E h \in 1..(j-1) : f[h][1] = f[j][1] THEN "r" ELSE "p",
                 RackStore(f[j][1]), "STARTED", f[j][2], 0)]

\* some inventory of nodes on any racks holding copies of three shards,
\* listed largest first, no node holding two copies of one shard, satisfies P
SomeRackInventory(P(_)) ==
    \E n \in 2..MaxNodes, k \in 2..MaxShards :
        \E racks \in [1..n -> 1..NumRacks], f \in [1..k -> {"a", "b", "c"} \X (1..n)] :
            /\ \A j \in 1..(k-1) : RackStore(f[j][1]) >= RackStore(f[j+1][1])
            /\ \A j, h \in 1..k : j # h => f[j] # f[h]
            /\ P(Inventory(RackFleet(n, racks), RackShards(k, f)))

\* three nodes of one capacity, one per rack, the third of the given tier
StateFleet(box_type3) ==
    <<RawNode(1, "hot", 1, 16), RawNode(2, "hot", 2, 16), RawNode(3, box_type3, 3, 16)>>

\* the store of a row as the planner counts it
Counted(store) == IF store # NoStore THEN store ELSE 0

\* the rows ES can report for one shard: started or initializing on a node,
\* relocating between two nodes, or unassigned (no node, no size)
StateRows ==
    {<<st, "STARTED", nd, 0>> : st \in StateSizes, nd \in 1..3}
    \cup {<<st, "INITIALIZING", nd, 0>> : st \in StateSizes \cup {NoStore}, nd \in 1..3}
    \cup {<<st, "RELOCATING", nd, to>> : st \in StateSizes, nd \in 1..3, to \in 1..3}
    \cup {<<NoStore, "UNASSIGNED", 0, 0>>}

\* k primaries of distinct identities; f gives store, state and nodes
StateShards(k, f) ==
    [j \in 1..k |-> RawShard("a", j, "p", f[j][1], f[j][2], f[j][3], f[j][4])]

\* some inventory of three nodes, the third in or out of the tier, holding
\* shards in any state, listed largest first, satisfies P
SomeStateInventory(P(_)) ==
    \E box_type3 \in {"hot", "warm"}, k \in 1..(MaxShards - 1) :
        \E f \in [1..k -> StateRows] :
            /\ \A j \in 1..k : f[j][2] = "RELOCATING" => f[j][3] # f[j][4]
            /\ \A j \in 1..(k-1) : Counted(f[j][1]) >= Counted(f[j+1][1])
            /\ P(Inventory(StateFleet(box_type3), StateShards(k, f)))

\* a copy of the shard x/0 on each of the three nodes, then k primaries of
\* distinct identities; f gives store and node
ReplicatedShards(k, f) ==
    <<RawShard("x", 0, "p", 4, "STARTED", 1, 0),
      RawShard("x", 0, "r", 4, "STARTED", 2, 0),
      RawShard("x", 0, "r", 4, "STARTED", 3, 0)>>
    \o SizeShards(k, f)

\* some inventory of three nodes on three racks, each holding a copy of one
\* shard, and further primaries listed largest first, satisfies P
SomeReplicatedInventory(P(_)) ==
    \E k \in 0..MaxShards :
        \E f \in [1..k -> Sizes \X (1..3)] :
            /\ \A j \in 1..(k-1) : f[j][1] >= f[j+1][1]
            /\ P(Inventory(StateFleet("hot"), ReplicatedShards(k, f)))

\* some inventory of two nodes of one capacity holding shards of which one
\* is a tenth, or less, of another, listed largest first, satisfies P
SomeTenthInventory(P(_)) ==
    \E k \in 1..(MaxShards - 1) :
        \E f \in [1..k -> TenthSizes \X (1..2)] :
            /\ \A j \in 1..(k-1) : f[j][1] >= f[j+1][1]
            /\ P(Inventory(SizeFleet(2, <<16, 16>>), SizeShards(k, f)))

\* some inventory of two or three nodes of any capacities, holding started
\* primaries that ES lists in any order, satisfies P
SomeUnsortedInventory(P(_)) ==
    \E n \in 2..MaxNodes, k \in 0..(MaxShards - 1) :
        \E caps \in [1..n -> Caps], f \in [1..k -> Sizes \X (1..n)] :
            P(Inventory(SizeFleet(n, caps), SizeShards(k, f)))

\* the primary of the shard x/0 on node a and its replica, of another
\* size, on node b, then k primaries of distinct identities
CopyShards(a, b, k, f) ==
    <<RawShard("x", 0, "p", 4, "STARTED", a, 0),
      RawShard("x", 0, "r", 1, "STARTED", b, 0)>>
    \o SizeShards(k, f)

\* some inventory of three nodes on three racks, two of them holding the
\* two copies of one shard, and further primaries listed largest first,
\* satisfies P
SomeCopyInventory(P(_)) ==
    \E a, b \in 1..3, k \in 0..MaxShards :
        \E f \in [1..k -> Sizes \X (1..3)] :
            /\ a # b
            /\ \A j \in 1..(k-1) : f[j][1] >= f[j+1][1]
            /\ P(Inventory(StateFleet("hot"), CopyShards(a, b, k, f)))

\* store values of the shards of the fleets with empty shards
ZeroSizes == {NoStore, 0, 1, 4}

\* some inventory of two or three nodes of one capacity, holding started
\* primaries of which some are empty or of no reported size, listed largest
\* first, satisfies P
SomeZeroInventory(P(_)) ==
    \E n \in 2..MaxNodes, k \in 1..MaxShards :
        \E f \in [1..k -> ZeroSizes \X (1..n)] :
            /\ \A j \in 1..(k-1) : Counted(f[j][1]) >= Counted(f[j+1][1])
            /\ P(Inventory(SizeFleet(n, [j \in 1..n |-> 16]), SizeShards(k, f)))

\* the documented scenario: two nodes of capacity 100, A holding shards of
\* 40 and 10, B holding two shards of 5
ScenarioInventory ==
    Inventory(<<RawNode(1, "hot", 1, 100), RawNode(2, "hot", 2, 100)>>,
              <<RawShard("a", 1, "p", 40, "STARTED", 1, 0),
                RawShard("a", 2, "p", 10, "STARTED", 1, 0),
                RawShard("a", 3, "p", 5, "STARTED", 2, 0),
                RawShard("a", 4, "p", 5, "STARTED", 2, 0)>>)

\* some inventory of the explored ones satisfies P
SomeInventory(P(_)) ==
    \/ SomeSizeInventory(Caps, P)
    \/ SomeFullInventory(P)
    \/ SomeRackInventory(P)
    \/ SomeReplicatedInventory(P)

\* some inventory of those the driver and the sink are run on satisfies P:
\* the fleets of equal capacities
SomeMainInventory(P(_)) == SomeSizeInventory({16}, P)

----
(* Initial states *)

\* Plan(es, box_type, shard_percentage, node_percentage) on an inventory
Constructed(inv, shard_percentage, node_percentage) ==
    LET plan == Plan__init__(inv.raw_nodes, inv.raw_shards, "hot")
    IN  /\ es = inv
        /\ nodes = SortedNodes(plan.nodes)
        /\ nodes_by_size = SortNodes(nodes, plan.order)
        /\ operations = <<>>
        /\ moved_shards = {}
        /\ shard_fraction_threshold = 100 - shard_percentage
        /\ node_fraction_threshold = node_percentage
        /\ result = "none"
        /\ prev = "none"
        /\ reroute = [calls |-> 0, commands |-> <<>>, dry_run |-> TRUE, accepted |-> TRUE]

NoDriver ==
    /\ pc = "library"
    /\ iterations = 0
    /\ execute = FALSE
    /\ i = 0
    /\ reported = 0
    /\ calls = 0

\* a planner used by a caller that only plans
Init ==
    /\ \/ \E th \in Thresholds :
                LET P(inv) == Constructed(inv, th[1], th[2]) IN SomeInventory(P)
       \/ \E th \in ScenarioThresholds : Constructed(ScenarioInventory, th[1], th[2])
       \/ \E th \in ScenarioThresholds :
                LET P(inv) == Constructed(inv, th[1], th[2]) IN SomeTenthInventory(P)
    /\ NoDriver

\* the same on the clusters that hold several copies of a shard
InitRacks ==
    /\ \E th \in Thresholds :
            LET P(inv) == Constructed(inv, th[1], th[2])
            IN  SomeRackInventory(P) \/ SomeReplicatedInventory(P)
    /\ NoDriver

\* the same on a cluster whose shards are in any state
InitStates ==
    /\ LET P(inv) == Constructed(inv, 50, 10) IN SomeStateInventory(P)
    /\ NoDriver

\* a planner on the fleets of any capacities, with one pair of thresholds
InitWhatIf ==
    /\ LET P(inv) == Constructed(inv, 50, 10) IN SomeSizeInventory(Caps, P)
    /\ NoDriver

\* a planner on fleets whose shards ES lists in any order
InitUnsorted ==
    /\ LET P(inv) == Constructed(inv, 50, 10) IN SomeUnsortedInventory(P)
    /\ NoDriver

\* a planner on fleets holding a primary and its replica of another size
InitCopies ==
    /\ LET P(inv) == Constructed(inv, 50, 10) IN SomeCopyInventory(P)
    /\ NoDriver

\* a planner on fleets that hold empty shards
InitZero ==
    /\ LET P(inv) == Constructed(inv, 50, 10) IN SomeZeroInventory(P)
    /\ NoDriver

\* a planner used by a caller that plans and submits
InitExec ==
    /\ \/ \E th \in Thresholds :
                LET P(inv) == Constructed(inv, th[1], th[2]) IN SomeMainInventory(P)
       \/ \E th \in ScenarioThresholds : Constructed(ScenarioInventory, th[1], th[2])
    /\ NoDriver

\* main, after parsing the arguments and constructing the plan
InitMain ==
    /\ \/ \E th \in Thresholds :
                LET P(inv) == Constructed(inv, th[1], th[2]) IN SomeMainInventory(P)
       \/ \E th \in ScenarioThresholds : Constructed(ScenarioInventory, th[1], th[2])
    /\ pc = "loop"
    /\ iterations \in 0..MaxIterations
    /\ execute \in BOOLEAN
    /\ i = 0
    /\ reported = 0
    /\ calls = 0

----
(* Actions *)

\* the planner state and the return value after one call of plan_step
StepOutcome ==
    plan_step(nodes, nodes_by_size, operations, moved_shards,
              shard_fraction_threshold, node_fraction_threshold)

Planned(o) ==
    /\ nodes' = o.plan.nodes
    /\ nodes_by_size' = o.plan.order
    /\ operations' = o.plan.operations
    /\ moved_shards' = o.plan.moved
    /\ result' = o.ret
    /\ prev' = result
    /\ UNCHANGED <<es, shard_fraction_threshold, node_fraction_threshold>>

\* a caller calls Plan.plan_step
PlanStep ==
    /\ pc = "library"
    /\ Planned(StepOutcome)
    /\ UNCHANGED <<reroute, driver>>

\* Reroute clearing the operations whatever ES answers
Reroute_AlwaysClears(dry_run, accepted) ==
    /\ reroute' = [calls |-> reroute.calls + 1, commands |-> operations,
                   dry_run |-> dry_run, accepted |-> accepted]
    /\ operations' = <<>>
    /\ UNCHANGED <<es, nodes, nodes_by_size, moved_shards,
                   shard_fraction_threshold, node_fraction_threshold, result, prev>>

\* Reroute keeping the operations after a dry run
Reroute_KeepsOnDryRun(dry_run, accepted) ==
    /\ reroute' = [calls |-> reroute.calls + 1, commands |-> operations,
                   dry_run |-> dry_run, accepted |-> accepted]
    /\ operations' = IF accepted /\ ~dry_run THEN <<>> ELSE operations
    /\ UNCHANGED <<es, nodes, nodes_by_size, moved_shards,
                   shard_fraction_threshold, node_fraction_threshold, result, prev>>

\* es.cluster.reroute as called by Plan.exec, accepted or rejected by ES
Reroute(dry_run, accepted) ==
    /\ reroute' = [calls |-> reroute.calls + 1, commands |-> operations,
                   dry_run |-> dry_run, accepted |-> accepted]
    /\ operations' = IF accepted THEN <<>> ELSE operations
    /\ UNCHANGED <<es, nodes, nodes_by_size, moved_shards,
                   shard_fraction_threshold, node_fraction_threshold, result, prev>>

\* a caller calls Plan.exec
Exec ==
    /\ pc = "library"
    /\ reroute.calls < MaxExecs
    /\ \E dry_run \in BOOLEAN, accepted \in BOOLEAN : Reroute(dry_run, accepted)
    /\ UNCHANGED driver

\* MainPlanStep without the break
MainPlanStep_KeepsLooping ==
    /\ pc = "loop"
    /\ i < iterations
    /\ Planned(StepOutcome)
    /\ calls' = calls + 1
    /\ IF StepOutcome.ret = "raised"
       THEN pc' = "crashed" /\ UNCHANGED <<i, reported>>
       ELSE IF StepOutcome.ret = "false"
            THEN pc' = "loop" /\ reported' = i + 1 /\ i' = i + 1
            ELSE pc' = "loop" /\ i' = i + 1 /\ UNCHANGED reported
    /\ UNCHANGED <<reroute, iterations, execute>>

\* MainPlanStep logging i instead of i+1
MainPlanStep_ReportsIndex ==
    /\ pc = "loop"
    /\ i < iterations
    /\ Planned(StepOutcome)
    /\ calls' = calls + 1
    /\ IF StepOutcome.ret = "raised"
       THEN pc' = "crashed" /\ UNCHANGED <<i, reported>>
       ELSE IF StepOutcome.ret = "false"
            THEN pc' = "exec" /\ reported' = i /\ UNCHANGED i
            ELSE pc' = "loop" /\ i' = i + 1 /\ UNCHANGED reported
    /\ UNCHANGED <<reroute, iterations, execute>>

\* one iteration of the loop of main
MainPlanStep ==
    /\ pc = "loop"
    /\ i < iterations
    /\ Planned(StepOutcome)
    /\ calls' = calls + 1
    /\ IF StepOutcome.ret = "raised"
       THEN pc' = "crashed" /\ UNCHANGED <<i, reported>>
       ELSE IF StepOutcome.ret = "false"
            THEN pc' = "exec" /\ reported' = i + 1 /\ UNCHANGED i
            ELSE pc' = "loop" /\ i' = i + 1 /\ UNCHANGED reported
    /\ UNCHANGED <<reroute, iterations, execute>>

\* range(args.iterations) is exhausted
MainLoopEnd ==
    /\ pc = "loop"
    /\ i = iterations
    /\ pc' = "exec"
    /\ UNCHANGED <<es, planner, result, prev, reroute, iterations, execute, i, reported, calls>>

\* plan.exec(dry_run=not args.execute)
MainExec ==
    /\ pc = "exec"
    /\ \E accepted \in BOOLEAN :
        /\ Reroute(~execute, accepted)
        /\ pc' = IF accepted THEN "done" ELSE "crashed"
    /\ UNCHANGED <<iterations, execute, i, reported, calls>>

Next == PlanStep
NextExec == PlanStep \/ Exec
NextMain == MainPlanStep \/ MainLoopEnd \/ MainExec

Spec == Init /\ [][Next]_vars
SpecRacks == InitRacks /\ [][Next]_vars
SpecStates == InitStates /\ [][Next]_vars
SpecWhatIf == InitWhatIf /\ [][Next]_vars
SpecUnsorted == InitUnsorted /\ [][Next]_vars
SpecCopies == InitCopies /\ [][Next]_vars
SpecZero == InitZero /\ [][Next]_vars
SpecExec == InitExec /\ [][NextExec]_vars
SpecMain == InitMain /\ [][NextMain]_vars

----
(* Properties *)

\* the positions (node, place in its list) of all shards of the fleet
AllPlaces(N) == UNION {{<<nm, k>> : k \in 1..Len(N[nm].shards)} : nm \in DOMAIN N}

\* no rack holds two shards of one (index, shard number)
RackSafe(N) ==
    \A p, q \in AllPlaces(N) :
        (p # q /\ N[p[1]].rack = N[q[1]].rack)
            => Ident(N[p[1]].shards[p[2]]) # Ident(N[q[1]].shards[q[2]])

\* every node is within its capacity
WithinCapacity(N) == \A nm \in DOMAIN N : N[nm].used <= N[nm].capacity

\* the variance of the current model (scaled, see percent_used_variance)
CurrentVariance == percent_used_variance(nodes, nodes_by_size, <<>>, <<>>)

\* the number of shards of identity id held in the fleet
Copies(N, id) == Cardinality({p \in AllPlaces(N) : Ident(N[p[1]].shards[p[2]]) = id})

\* the identities named by the commands planned so far
Exchanged == {<<operations[k].index, operations[k].shard>> : k \in 1..Len(operations)}

\* C1 (rack safety): a plan_step call made on a model in which no rack
\* holds two shards of one (index, shard number) leaves such a model, so a
\* rack-safe initial model stays rack-safe over any sequence of calls.
C1_RackSafety == [][RackSafe(nodes) => RackSafe(nodes')]_vars

\* an exchange was committed in a rack-safe fleet in which two nodes share
\* a rack and an exchanged shard has a second copy
C1_Witness ==
    /\ RackSafe(nodes)
    /\ operations # <<>>
    /\ \E a, b \in DOMAIN nodes : a # b /\ nodes[a].rack = nodes[b].rack
    /\ \E id \in Exchanged : Copies(nodes, id) >= 2

\* C2 (capacity): a plan_step call made on a model in which every node has
\* used <= capacity leaves every node with used <= capacity.
C2_Capacity == [][WithinCapacity(nodes) => WithinCapacity(nodes')]_vars

\* the pair p of the scan is refused by the capacity test alone, although
\* exchanging it would lower the variance
OnlyTooBig(p) ==
    /\ p[4].store < p[2].store
    /\ TooBig(nodes, p[1], p[2], p[3], p[4])
    /\ ~NotWorthSwapping(p[2], p[4], shard_fraction_threshold)
    /\ ~FracClose(nodes[p[1]], nodes[p[3]], node_fraction_threshold)
    /\ ~RackConflict(nodes, p[1], p[2], p[3])
    /\ ~RackConflict(nodes, p[3], p[4], p[1])
    /\ exchanged_pvariance(nodes, nodes_by_size, p[1], p[2], p[3], p[4]) < CurrentVariance

\* a call was made on a fleet within capacity in which the capacity test
\* alone refuses an exchange that would overfill a node
C2_Witness ==
    /\ WithinCapacity(nodes)
    /\ result # "none"
    /\ LET pairs == ScanPairs(nodes, nodes_by_size, moved_shards, node_fraction_threshold)
       IN  \E k \in 1..Len(pairs) : OnlyTooBig(pairs[k])

\* C3 (strict improvement): a plan_step call that returns true leaves a
\* variance strictly below the variance before the call.
C3_StrictImprovement ==
    [][result' = "true" => percent_used_variance(nodes', nodes_by_size', <<>>, <<>>)
                                < CurrentVariance]_vars

\* a call returned true on a fleet of three nodes of unequal capacities
C3_Witness ==
    /\ result = "true"
    /\ Len(nodes_by_size) >= 3
    /\ \E a, b \in DOMAIN nodes : nodes[a].capacity # nodes[b].capacity

\* the identities of the shards the two scans of plan_step can still yield
YieldedIds ==
    LET bigs == find_big_shards(nodes, nodes_by_size, moved_shards,
                                node_fraction_threshold)
        smalls(nm) == find_small_shards(nodes, nodes_by_size, moved_shards, nm)
    IN  {Ident(bigs[k][2]) : k \in 1..Len(bigs)}
        \cup UNION {{Ident(smalls(nm)[k][2]) : k \in 1..Len(smalls(nm))} :
                        nm \in DOMAIN nodes}

\* C4 (no double move): once a shard identity took part in a committed
\* exchange, neither scan of the same plan yields a shard of that identity
\* again, whatever node the scan is made for.
C4_NoDoubleMove == \A id \in Exchanged : id \notin YieldedIds

\* after an exchange of a shard that has a second copy, a later call was
\* made and the scans still yield other shards
C4_Witness ==
    /\ Exchanged # {}
    /\ prev = "true"
    /\ YieldedIds # {}
    /\ \E id \in Exchanged : Copies(nodes, id) >= 2

\* C5 (idempotent convergence): after plan_step returned false, the next
\* call on the same plan returns false as well.
C5_StaysFalse == prev = "false" => result = "false"

\* two calls in a row returned false after an exchange had been planned
C5_Witness ==
    /\ prev = "false"
    /\ result = "false"
    /\ operations # <<>>

\* the number of elements of s equal to x
Count(s, x) == Cardinality({k \in 1..Len(s) : s[k] = x})

\* 1 when the condition holds, else 0
Bit(b) == IF b THEN 1 ELSE 0

\* node nm gave shard out and received shard in, and nothing else about it
\* changed
GaveAndReceived(nm, out, in) ==
    /\ nodes'[nm].capacity = nodes[nm].capacity
    /\ nodes'[nm].rack = nodes[nm].rack
    /\ nodes'[nm].used = nodes[nm].used - out.store + in.store
    /\ Len(nodes'[nm].shards) = Len(nodes[nm].shards)
    /\ \A k \in 1..Len(nodes'[nm].shards) :
            LET x == nodes'[nm].shards[k]
            IN  Count(nodes'[nm].shards, x)
                    = Count(nodes[nm].shards, x) - Bit(x = out) + Bit(x = in)

\* the step is exactly one exchange of s1 on n1 with s2 on n2
ExactlyExchanged(n1, s1, n2, s2) ==
    /\ operations' = operations \o <<Move(s1, n1, n2), Move(s2, n2, n1)>>
    /\ moved_shards' = moved_shards \cup {Ident(s1), Ident(s2)}
    /\ DOMAIN nodes' = DOMAIN nodes
    /\ \A nm \in DOMAIN nodes : nm \notin {n1, n2} => nodes'[nm] = nodes[nm]
    /\ GaveAndReceived(n1, s1, s2)
    /\ GaveAndReceived(n2, s2, s1)

\* C6 (atomic): a plan_step call either changes nothing of the plan (when
\* it does not return true) or changes it by exactly one exchange: two
\* commands appended, the two shards swapped between two distinct nodes,
\* both identities marked as moved.
C6_Atomic ==
    [][IF result' = "true"
       THEN \E p, q \in AllPlaces(nodes) :
                /\ p[1] # q[1]
                /\ ExactlyExchanged(p[1], nodes[p[1]].shards[p[2]],
                                    q[1], nodes[q[1]].shards[q[2]])
       ELSE UNCHANGED planner]_vars

\* a second exchange was committed on a fleet of three nodes
C6_Witness ==
    /\ result = "true"
    /\ Len(operations) >= 4
    /\ Len(nodes_by_size) >= 3

\* some exchange of two candidate shards between two nodes passes
\* can_exchange_shards and lowers the variance
LegalImproving ==
    \E p, q \in AllPlaces(nodes) :
        LET s1 == nodes[p[1]].shards[p[2]]
            s2 == nodes[q[1]].shards[q[2]]
        IN  /\ p[1] # q[1]
            /\ Candidate(s1, moved_shards)
            /\ Candidate(s2, moved_shards)
            /\ ~can_exchange_raises(p[1], s1, q[1], s2)
            /\ can_exchange_shards(nodes, shard_fraction_threshold,
                                   node_fraction_threshold, p[1], s1, q[1], s2)
            /\ exchanged_pvariance(nodes, nodes_by_size, p[1], s1, q[1], s2)
                    < CurrentVariance

\* C7 (completeness): plan_step returns false only when no legal exchange
\* that lowers the variance exists.
C7_Completeness == result = "false" => ~LegalImproving

\* C8 (driver): main makes at most `iterations` calls of plan_step and makes
\* none after the first that returns false; with iterations = 3 and a first
\* false on the second call there is one exchange, so two commands, and one
\* submission carrying them.
C8_Driver ==
    /\ calls <= iterations
    /\ i <= iterations
    /\ reroute.calls <= 1
    /\ result = "false" => (pc # "loop" /\ calls = i + 1)
    /\ (iterations = 3 /\ calls = 2 /\ result = "false")
        => /\ i = 1
           /\ pc = "exec" => (Len(operations) = 2 /\ reroute.calls = 0)
           /\ pc \in {"done", "crashed"}
                => (reroute.calls = 1 /\ Len(reroute.commands) = 2)

\* main ran with iterations = 3, the second call returned false and the
\* two commands were submitted once
C8_Witness ==
    /\ pc = "done"
    /\ iterations = 3
    /\ calls = 2
    /\ result = "false"
    /\ reroute.calls = 1
    /\ Len(reroute.commands) = 2

\* the commands main planned: pending until exec, then those it submitted
PlannedCommands == IF reroute.calls = 0 THEN operations ELSE reroute.commands

\* C9 as stated: the number in the early-stop message is the number of
\* exchanges planned.
C9_ReportsExchanges == reported # 0 => reported * 2 = Len(PlannedCommands)

\* C9 (amended): the number in the early-stop message is the number of
\* plan_step calls made, the failed one included: one more than the number
\* of exchanges planned.
C9_ReportsCalls ==
    /\ reported # 0 <=> result = "false"
    /\ reported # 0 =>
        /\ reported = calls
        /\ reported = i + 1
        /\ (reported - 1) * 2 = Len(PlannedCommands)

\* main stopped early after one exchange and reported 2
C9_Witness ==
    /\ reported = 2
    /\ i = 1
    /\ Len(PlannedCommands) = 2

\* the documented scenario: two nodes of capacity 100, thresholds 90% / 10%
IsScenario ==
    /\ Len(nodes_by_size) = 2
    /\ \A nm \in DOMAIN nodes : nodes[nm].capacity = 100
    /\ shard_fraction_threshold = 100 - 90
    /\ node_fraction_threshold = 10

\* the 40 shard of node A and a 5 shard of node B
Shard40 == Shard("a", 1, "p", 40, TRUE)
Shard5 == Shard("a", 3, "p", 5, TRUE)

\* C10 as stated: in the scenario the pair (40, 5) passes the size filter
\* and a call exchanges it, leaving A with 15 and B with 45.
C10_ScenarioAccepted ==
    IsScenario =>
        /\ ~NotWorthSwapping(Shard40, Shard5, shard_fraction_threshold)
        /\ result # "none" =>
                (result = "true" /\ nodes[1].used = 15 /\ nodes[2].used = 45)

\* C10 (amended): in the scenario the pair (40, 5) has ratio 0.125, above
\* the threshold 0.1, so the size filter refuses it; plan_step returns false
\* and leaves A with 50 and B with 10, although the exchange would lower
\* the variance.
C10_ScenarioRejected ==
    IsScenario =>
        /\ NotWorthSwapping(Shard40, Shard5, shard_fraction_threshold)
        /\ exchanged_pvariance(nodes, nodes_by_size, 1, Shard40, 2, Shard5)
                < CurrentVariance
        /\ result \in {"none", "false"}
        /\ nodes[1].used = 50
        /\ nodes[2].used = 10
        /\ operations = <<>>

\* plan_step was called in the scenario and returned false
C10_Witness ==
    /\ IsScenario
    /\ result = "false"
    /\ nodes[1].used = 50

\* some node of the rack of node dst, other than node src, holds a shard of
\* the (index, shard number) of s, whatever its role
CopyOnRack(s, src, dst) ==
    \E p \in AllPlaces(nodes) :
        /\ p[1] # src
        /\ nodes[p[1]].rack = nodes[dst].rack
        /\ nodes[p[1]].shards[p[2]].index = s.index
        /\ nodes[p[1]].shards[p[2]].shard = s.shard

\* C11 (rack filter): for any two shards on two nodes, can_exchange_shards
\* returns false when a node of the rack of either destination, other than
\* the source, holds a shard of the (index, shard number) of the incoming
\* shard, whatever the sizes and the usages.
C11_RackFilter ==
    \A p, q \in AllPlaces(nodes) :
        LET s1 == nodes[p[1]].shards[p[2]]
            s2 == nodes[q[1]].shards[q[2]]
        IN  (/\ p[1] # q[1]
             /\ ~can_exchange_raises(p[1], s1, q[1], s2)
             /\ CopyOnRack(s1, p[1], q[1]) \/ CopyOnRack(s2, q[1], p[1]))
            => ~can_exchange_shards(nodes, shard_fraction_threshold,
                                    node_fraction_threshold, p[1], s1, q[1], s2)

\* the shard at place p is the copy of x/0 of a fleet of three racks with a
\* copy on each, and exchanging it with the shard at place q passes the
\* size, similarity and capacity tests and would lower the variance
OnlyRackConflict(p, q) ==
    LET s1 == nodes[p[1]].shards[p[2]]
        s2 == nodes[q[1]].shards[q[2]]
    IN  /\ p[1] # q[1]
        /\ s1.index = "x"
        /\ s2.index # "x"
        /\ \A nm \in DOMAIN nodes : CopyOnRack(s1, 0, nm)
        /\ ~NotWorthSwapping(s1, s2, shard_fraction_threshold)
        /\ ~FracClose(nodes[p[1]], nodes[q[1]], node_fraction_threshold)
        /\ ~TooBig(nodes, p[1], s1, q[1], s2)
        /\ exchanged_pvariance(nodes, nodes_by_size, p[1], s1, q[1], s2)
                < CurrentVariance

\* a call was made on three racks each holding a copy of one shard, where
\* the rack filter alone refuses an exchange of that shard
C11_Witness ==
    /\ result # "none"
    /\ Cardinality({nodes[nm].rack : nm \in DOMAIN nodes}) = 3
    /\ \E p, q \in AllPlaces(nodes) : OnlyRackConflict(p, q)

\* after exchanging s1 of n1 with s2 of n2 both nodes are within capacity
FitsAfterExchange(n1, s1, n2, s2) ==
    /\ nodes[n1].used - s1.store + s2.store <= nodes[n1].capacity
    /\ nodes[n2].used - s2.store + s1.store <= nodes[n2].capacity

\* C12 (capacity filter): the capacity test judges each node by its usage
\* after the exchange (used minus the outgoing shard plus the incoming one):
\* an exchange that leaves both nodes within capacity is not refused by it.
C12_PostExchangeCapacity ==
    \A p, q \in AllPlaces(nodes) :
        LET s1 == nodes[p[1]].shards[p[2]]
            s2 == nodes[q[1]].shards[q[2]]
        IN  (p[1] # q[1] /\ FitsAfterExchange(p[1], s1, q[1], s2))
                => ~TooBig(nodes, p[1], s1, q[1], s2)

\* C13 (rejected batch): when the sink rejects the batch, exec has made one
\* submission, of the operations list as it was, and leaves the operations
\* list and the rest of the plan as they were before the call.
C13_RejectedExec ==
    [][(reroute'.calls # reroute.calls /\ ~reroute'.accepted)
        => /\ reroute'.calls = reroute.calls + 1
           /\ reroute'.commands = operations
           /\ operations' = operations
           /\ UNCHANGED planner]_vars

\* the sink rejected a batch of commands, which are still pending
C13_Witness ==
    /\ reroute.calls >= 1
    /\ ~reroute.accepted
    /\ reroute.commands # <<>>
    /\ operations = reroute.commands

\* the shards the two scans of plan_step yield, for any big node
YieldedShards ==
    LET bigs == find_big_shards(nodes, nodes_by_size, moved_shards,
                                node_fraction_threshold)
        smalls(nm) == find_small_shards(nodes, nodes_by_size, moved_shards, nm)
    IN  {bigs[k][2] : k \in 1..Len(bigs)}
        \cup UNION {{smalls(nm)[k][2] : k \in 1..Len(smalls(nm))} :
                        nm \in DOMAIN nodes}

\* the commands appended by the step
NewCommands == {operations'[k] : k \in (Len(operations) + 1)..Len(operations')}

\* C14 (immovable shards): a shard that is not STARTED is yielded by neither
\* scan, and a plan_step call leaves it on the node that holds it and emits
\* no command moving it off that node.
C14_ImmovableStay ==
    [][/\ \A s \in YieldedShards : s.can_move
       /\ \A p \in AllPlaces(nodes) :
            LET s == nodes[p[1]].shards[p[2]]
            IN  ~s.can_move =>
                    /\ Count(nodes'[p[1]].shards, s) = Count(nodes[p[1]].shards, s)
                    /\ \A c \in NewCommands :
                            ~(/\ c.from_node = p[1]
                              /\ c.index = s.index
                              /\ c.shard = s.shard)]_vars

\* an exchange was committed that took a shard off a node on which a shard
\* at least as large is not movable, and left that one there
C14_Witness ==
    /\ result = "true"
    /\ \E p \in AllPlaces(nodes) :
            /\ ~nodes[p[1]].shards[p[2]].can_move
            /\ nodes[p[1]].shards[p[2]].store = 4
            /\ p[1] = operations[1].from_node

\* the rows of cat.shards that ES reported as RELOCATING
RelocatingRows ==
    {j \in 1..Len(es.raw_shards) : es.raw_shards[j].state = "RELOCATING"}

\* row j counts against node nm: it is on nm, or it is relocating to nm
CountsAgainst(j, nm) ==
    LET row == es.raw_shards[j]
    IN  row.node = nm \/ (row.state = "RELOCATING" /\ row.to = nm)

\* the sizes of the rows that count against node nm
ReportedOn(nm) ==
    SumSeq([j \in 1..Len(es.raw_shards) |->
                IF CountsAgainst(j, nm) /\ es.raw_shards[j].store # NoStore
                THEN es.raw_shards[j].store ELSE 0])

\* C15 (relocating shards): a shard reported as RELOCATING from A to B is in
\* the shard list of A and of B (of each that is in the tier), once and not
\* movable, and at construction the used of every node is the sum of the
\* sizes of the shards on it or relocating from or to it.
C15_RelocatingOnBoth ==
    /\ \A j \in RelocatingRows, nm \in DOMAIN nodes :
            LET row == es.raw_shards[j]
            IN  nm \in {row.node, row.to} =>
                    Count(nodes[nm].shards,
                          [index |-> row.index, shard |-> row.shard,
                           prirep |-> row.prirep, store |-> row.store,
                           can_move |-> FALSE]) = 1
    /\ result = "none" => \A nm \in DOMAIN nodes : nodes[nm].used = ReportedOn(nm)

\* a plan was constructed on a cluster with a shard relocating between two
\* nodes of the tier and another relocating to a node outside the tier
C15_Witness ==
    /\ result = "none"
    /\ \E j \in RelocatingRows :
            {es.raw_shards[j].node, es.raw_shards[j].to} \subseteq DOMAIN nodes
    /\ \E j \in RelocatingRows :
            /\ es.raw_shards[j].node \in DOMAIN nodes
            /\ es.raw_shards[j].to \notin DOMAIN nodes

\* C16 (used): after construction and after every plan_step call, the used
\* of every node is the sum of the sizes of the shards in its shard list.
C16_UsedIsSum ==
    \A nm \in DOMAIN nodes :
        nodes[nm].used
            = SumSeq([k \in 1..Len(nodes[nm].shards) |-> nodes[nm].shards[k].store])

\* an exchange was committed with a node that also holds a shard that is
\* relocating and so is counted on two nodes
C16_Witness ==
    /\ result = "true"
    /\ \E j \in RelocatingRows :
            /\ es.raw_shards[j].to \in DOMAIN nodes
            /\ es.raw_shards[j].node \in {operations[1].from_node, operations[1].to_node}

\* the shard of the (index, shard number) of command c in the list of node nm
ShardOn(N, nm, c) ==
    N[nm].shards[CHOOSE k \in 1..Len(N[nm].shards) :
                    Ident(N[nm].shards[k]) = <<c.index, c.shard>>]

\* a.used / a.capacity exceeds b.used / b.capacity by at least thr / 100
FracApart(a, b, thr) ==
    (a.used * b.capacity - b.used * a.capacity) * 100 >= thr * a.capacity * b.capacity

\* C17 (direction and distance): every committed exchange moves the
\* strictly larger shard off the node of higher fractional usage, onto a
\* node whose fractional usage at that time is lower by at least
\* node_fraction_threshold.
C17_BigToSmall ==
    [][result' = "true" =>
        LET c1 == operations'[Len(operations) + 1]
            c2 == operations'[Len(operations) + 2]
            s1 == ShardOn(nodes, c1.from_node, c1)
            s2 == ShardOn(nodes, c2.from_node, c2)
        IN  /\ c2.from_node = c1.to_node
            /\ c2.to_node = c1.from_node
            /\ c1.from_node # c1.to_node
            /\ s1.store > s2.store
            /\ FracGt(nodes[c1.from_node], nodes[c1.to_node])
            /\ FracApart(nodes[c1.from_node], nodes[c1.to_node],
                         node_fraction_threshold)]_vars

\* the latest exchange was committed between two nodes whose usages were
\* exactly node_fraction_threshold apart
C17_Witness ==
    /\ result = "true"
    /\ LET c1 == operations[Len(operations) - 1]
           c2 == operations[Len(operations)]
           s1 == ShardOn(nodes, c1.to_node, c1)
           s2 == ShardOn(nodes, c2.to_node, c2)
           big == nodes[c1.from_node]
           small == nodes[c1.to_node]
       IN  ((big.used + s1.store - s2.store) * small.capacity
                - (small.used - s1.store + s2.store) * big.capacity) * 100
            = node_fraction_threshold * big.capacity * small.capacity

\* C18 (size filter): the size test refuses a pair exactly when the ratio of
\* the smaller to the larger size is strictly greater than
\* 1 - shard_percentage / 100; a ratio equal to the threshold is not refused.
C18_SizeRatio ==
    \A p, q \in AllPlaces(nodes) :
        LET s1 == nodes[p[1]].shards[p[2]]
            s2 == nodes[q[1]].shards[q[2]]
            big == IF s1.store > s2.store THEN s1.store ELSE s2.store
            small == IF s1.store > s2.store THEN s2.store ELSE s1.store
        IN  (p[1] # q[1] /\ big > 0) =>
                (NotWorthSwapping(s1, s2, shard_fraction_threshold)
                    <=> small * 100 > shard_fraction_threshold * big)

\* the pairs that the loops of plan_step would visit if the scan of the big
\* shards went through every node
ScanPairsAll ==
    LET bigs == ConcatAll([k \in 1..Len(nodes_by_size) |->
                    Yield(nodes_by_size[k], nodes[nodes_by_size[k]].shards,
                          moved_shards)])
    IN  ConcatAll([b \in 1..Len(bigs) |->
            LET smalls == find_small_shards(nodes, nodes_by_size, moved_shards,
                                            bigs[b][1])
            IN  [k \in 1..Len(smalls) |->
                    <<bigs[b][1], bigs[b][2], smalls[k][1], smalls[k][2]>>]])

\* the pairs that plan_step visits
ScanPairsNow ==
    ScanPairs(nodes, nodes_by_size, moved_shards, node_fraction_threshold)

\* C19 (early stop): the pairs that plan_step does not visit because the
\* scan of the big shards stopped early are all refused by the usage test
\* of can_exchange_shards and none of them passes the tests of plan_step,
\* so the first pair that passes them, which plan_step commits, is the same
\* with and without the early stop.
C19_EarlyStopHarmless ==
    \A all \in {ScanPairsAll}, now \in {ScanPairsNow} :
        /\ SubSeq(all, 1, Len(now)) = now
        /\ \A k \in (Len(now) + 1)..Len(all) :
                /\ FracClose(nodes[all[k][1]], nodes[all[k][3]],
                             node_fraction_threshold)
                /\ ~Accepted(nodes, nodes_by_size, shard_fraction_threshold,
                             node_fraction_threshold, all[k])

\* a call was made, and in the model it left the scan of the big shards
\* visits pairs and stops before other pairs of candidate shards
C19_Witness ==
    /\ result # "none"
    /\ ScanPairsNow # <<>>
    /\ Len(ScanPairsAll) > Len(ScanPairsNow)

\* the position of node nm in nodes_by_size
NodePos(nm) == CHOOSE k \in 1..Len(nodes_by_size) : nodes_by_size[k] = nm

\* the position in the list of node nm of its shard named by command c
ShardPos(nm, c) ==
    CHOOSE k \in 1..Len(nodes[nm].shards) :
        Ident(nodes[nm].shards[k]) = <<c.index, c.shard>>

\* the pairs of candidate shards, as <<position of the big node, position
\* of the big shard, position of the small node, position of the small
\* shard>>, the small node being less used than the big node
OrderedPairs ==
    {t \in (1..Len(nodes_by_size)) \X (1..MaxShards + 3)
            \X (1..Len(nodes_by_size)) \X (1..MaxShards + 3) :
        /\ t[3] > t[1]
        /\ t[2] <= Len(nodes[nodes_by_size[t[1]]].shards)
        /\ t[4] <= Len(nodes[nodes_by_size[t[3]]].shards)
        /\ Candidate(nodes[nodes_by_size[t[1]]].shards[t[2]], moved_shards)
        /\ Candidate(nodes[nodes_by_size[t[3]]].shards[t[4]], moved_shards)}

\* pair t comes before pair u in the scan: big nodes from the most used, their
\* shards from the largest, small nodes from the least used, their shards
\* from the smallest
ScannedBefore(t, u) ==
    \/ t[1] < u[1]
    \/ t[1] = u[1] /\ t[2] < u[2]
    \/ t[1] = u[1] /\ t[2] = u[2] /\ t[3] > u[3]
    \/ t[1] = u[1] /\ t[2] = u[2] /\ t[3] = u[3] /\ t[4] > u[4]

\* pair t has small size < big size, passes can_exchange_shards and strictly
\* lowers the variance
Improves(t) ==
    LET n1 == nodes_by_size[t[1]]
        n2 == nodes_by_size[t[3]]
        s1 == nodes[n1].shards[t[2]]
        s2 == nodes[n2].shards[t[4]]
    IN  /\ s2.store < s1.store
        /\ can_exchange_shards(nodes, shard_fraction_threshold,
                               node_fraction_threshold, n1, s1, n2, s2)
        /\ exchanged_pvariance(nodes, nodes_by_size, n1, s1, n2, s2)
                < CurrentVariance

\* C20 (greedy first improvement): the pair that a plan_step call commits
\* has small size < big size, passes can_exchange_shards and strictly lowers
\* the variance, and no pair that comes before it in the scan order does.
C20_FirstImprovement ==
    [][result' = "true" =>
        LET c1 == operations'[Len(operations) + 1]
            c2 == operations'[Len(operations) + 2]
        IN  \A u \in {<<NodePos(c1.from_node), ShardPos(c1.from_node, c1),
                         NodePos(c2.from_node), ShardPos(c2.from_node, c2)>>} :
                /\ u \in OrderedPairs
                /\ Improves(u)
                /\ \A t \in OrderedPairs : ScannedBefore(t, u) => ~Improves(t)]_vars

\* on a fleet of three nodes an exchange was committed whose small shard
\* came from a node that holds a larger shard too
C20_Witness ==
    /\ result = "true"
    /\ Len(nodes_by_size) >= 3
    /\ LET c2 == operations[Len(operations)]
           s2 == ShardOn(nodes, c2.to_node, c2)
       IN  \E k \in 1..Len(nodes[c2.to_node].shards) :
                /\ nodes[c2.to_node].shards[k].store > s2.store
                /\ nodes[c2.to_node].shards[k].store >= 2

\* a pair of the scan reaches the what-if evaluation of plan_step
WhatIfEvaluated ==
    LET pairs == ScanPairs(nodes, nodes_by_size, moved_shards, node_fraction_threshold)
    IN  \E k \in 1..Len(pairs) :
            /\ pairs[k][4].store < pairs[k][2].store
            /\ can_exchange_shards(nodes, shard_fraction_threshold,
                                   node_fraction_threshold,
                                   pairs[k][1], pairs[k][2], pairs[k][3], pairs[k][4])

\* the variance of the model that plan_exchange(n1, s1, n2, s2) leaves
CommittedVariance(n1, s1, n2, s2) ==
    CHOOSE v \in {percent_used_variance(after.nodes, after.order, <<>>, <<>>) :
                    after \in {plan_exchange(nodes, nodes_by_size, operations,
                                             moved_shards, n1, s1, n2, s2)}} : TRUE

\* C21 (what-if matches the commit): for any two shards on two distinct
\* nodes, the variance evaluated with the two shards excluded from their
\* nodes and included on the other node equals the variance, evaluated with
\* no overrides, of the model after plan_exchange of the two shards; and a
\* call that evaluates what-ifs and commits nothing leaves every node's
\* shards and used as they were.
C21_WhatIfMatchesCommit ==
    [][/\ \A p, q \in AllPlaces(nodes) :
            p[1] # q[1] =>
                LET s1 == nodes[p[1]].shards[p[2]]
                    s2 == nodes[q[1]].shards[q[2]]
                IN  exchanged_pvariance(nodes, nodes_by_size, p[1], s1, q[1], s2)
                        = CommittedVariance(p[1], s1, q[1], s2)
       /\ (WhatIfEvaluated /\ result' = "false")
            => (nodes' = nodes /\ nodes_by_size' = nodes_by_size)]_vars

\* a call evaluated a what-if and committed nothing, on a fleet of three
\* nodes of unequal capacities whose order an exchange of some two shards
\* would change
C21_Witness ==
    /\ result = "false"
    /\ prev = "none"
    /\ WhatIfEvaluated
    /\ Len(nodes_by_size) >= 3
    /\ \E a, b \in DOMAIN nodes : nodes[a].capacity # nodes[b].capacity
    /\ \E p, q \in AllPlaces(nodes) :
            /\ p[1] # q[1]
            /\ plan_exchange(nodes, nodes_by_size, operations, moved_shards,
                             p[1], nodes[p[1]].shards[p[2]],
                             q[1], nodes[q[1]].shards[q[2]]).order # nodes_by_size

\* nodes_by_size lists the nodes by non-increasing used / capacity
NodesOrdered(N, order) ==
    \A k \in 1..(Len(order) - 1) : ~FracGt(N[order[k+1]], N[order[k]])

\* every shard list is by non-increasing store
ShardsOrdered(N) ==
    \A nm \in DOMAIN N :
        \A k \in 1..(Len(N[nm].shards) - 1) :
            N[nm].shards[k].store >= N[nm].shards[k+1].store

\* C22 (ordering invariant): after construction and after every committed
\* exchange, nodes_by_size is sorted by non-increasing fractional usage and
\* every node's shard list is sorted by non-increasing size.
C22_Ordered ==
    /\ NodesOrdered(nodes, nodes_by_size)
    /\ ShardsOrdered(nodes)
    /\ \A nm \in DOMAIN nodes : \E k \in 1..Len(nodes_by_size) : nodes_by_size[k] = nm

\* an exchange was committed on a fleet whose rows ES listed smaller shard
\* first; the node that gave the big shard is no longer the fullest and a
\* node of the exchange holds a smaller shard than the one appended to it
C22_Witness ==
    /\ result = "true"
    /\ \E j \in 1..(Len(es.raw_shards) - 1) :
            /\ es.raw_shards[j].node = es.raw_shards[j+1].node
            /\ es.raw_shards[j].store < es.raw_shards[j+1].store
    /\ nodes_by_size[1] # operations[Len(operations) - 1].from_node
    /\ \E c \in {operations[Len(operations) - 1], operations[Len(operations)]} :
            LET to == nodes[c.to_node].shards
            IN  \E k \in 1..Len(to) :
                    /\ Ident(to[k]) = <<c.index, c.shard>>
                    /\ to[Len(to)].store < to[k].store

\* the placement the planner was constructed with
InitialNodes == SortedNodes(Plan__init__(es.raw_nodes, es.raw_shards, "hot").nodes)

\* the places on the from_node of command c, in the placement N, of the
\* movable shards that c names
Named(N, c) ==
    {k \in 1..Len(N[c.from_node].shards) :
        /\ Ident(N[c.from_node].shards[k]) = <<c.index, c.shard>>
        /\ N[c.from_node].shards[k].can_move}

\* the placement after Elasticsearch carried out command c on N
Carried(N, c) ==
    LET s == N[c.from_node].shards[CHOOSE k \in Named(N, c) : TRUE]
    IN  [N EXCEPT ![c.from_node].shards = RemoveFirst(@, s),
                  ![c.to_node].shards = Append(@, s)]

\* the sum of the stores on node nm in the placement N, over its capacity,
\* is above that of node om
Fuller(N, nm, om) ==
    SumSeq(Stores(N[nm].shards)) * N[om].capacity
        > SumSeq(Stores(N[om].shards)) * N[nm].capacity

\* the commands ops, replayed in order on the placement N, come in pairs:
\* the larger shard from the fuller node to the other node, then a smaller
\* shard back, each command finding a movable shard it names on its
\* from_node; the result is the placement reached
RECURSIVE Replay(_, _)
Replay(N, ops) ==
    IF ops = <<>> THEN [ok |-> TRUE, nodes |-> N]
    ELSE IF Len(ops) < 2 THEN [ok |-> FALSE, nodes |-> N]
    ELSE LET c1 == ops[1]
             c2 == ops[2]
         IN  IF \/ c1.from_node \notin DOMAIN N \/ c1.to_node \notin DOMAIN N
                \/ c1.from_node = c1.to_node
                \/ c2.from_node # c1.to_node \/ c2.to_node # c1.from_node
                \/ Named(N, c1) = {}
             THEN [ok |-> FALSE, nodes |-> N]
             ELSE LET N1 == Carried(N, c1)
                  IN  IF Named(N1, c2) = {}
                      THEN [ok |-> FALSE, nodes |-> N1]
                      ELSE LET N2 == Carried(N1, c2)
                               big == N[c1.from_node].shards[CHOOSE k \in Named(N, c1) : TRUE]
                               small == N1[c2.from_node].shards[CHOOSE k \in Named(N1, c2) : TRUE]
                           IN  IF big.store > small.store /\ Fuller(N, c1.from_node, c1.to_node)
                               THEN Replay(N2, SubSeq(ops, 3, Len(ops)))
                               ELSE [ok |-> FALSE, nodes |-> N2]

\* two shard lists hold the same shards, in any order
SameShards(s, t) ==
    /\ Len(s) = Len(t)
    /\ \A k \in 1..Len(s) : Count(s, s[k]) = Count(t, s[k])

\* C23 (command replay): the operations list is made of pairs, the big
\* shard's move from the big node to the small node and then the small
\* shard's move back; replaying the list in order on the initial placement
\* finds, for every command, a movable shard of its (index, shard number)
\* on its from_node, and ends in the planner's node-to-shard assignment.
C23_Replay ==
    \A r \in {Replay(InitialNodes, operations)} :
        /\ r.ok
        /\ DOMAIN r.nodes = DOMAIN nodes
        /\ \A nm \in DOMAIN nodes : SameShards(r.nodes[nm].shards, nodes[nm].shards)

\* two exchanges were planned, the second on a node of the first, in a
\* fleet in which every node also holds a copy of one replicated shard
C23_Witness ==
    /\ Len(operations) >= 4
    /\ {operations[3].from_node, operations[3].to_node}
            \cap {operations[1].from_node, operations[1].to_node} # {}
    /\ \E p \in AllPlaces(nodes) :
            \A nm \in DOMAIN nodes : \E k \in 1..Len(nodes[nm].shards) :
                Ident(nodes[nm].shards[k]) = Ident(nodes[p[1]].shards[p[2]])

\* C24 (plan_step never fails): every call of plan_step returns a boolean,
\* and on a fleet with no node of the tier or with a single node it
\* returns false.
C24_NeverFails ==
    /\ result \in {"none", "true", "false"}
    /\ (result # "none" /\ Len(nodes_by_size) <= 1) => result = "false"

\* the distinct (index, shard number) identities of the model
Identities == {Ident(nodes[p[1]].shards[p[2]]) : p \in AllPlaces(nodes)}

\* the exchanges committed so far are at most half the identities, each of
\* them having added two identities to moved_shards
CommitBound ==
    /\ Cardinality(moved_shards) = Len(operations)
    /\ moved_shards \subseteq Identities
    /\ Len(operations) <= Cardinality(Identities)

\* C25 (termination bound): from any initial model, repeated plan_step
\* calls come to return false after finitely many commits: the number of
\* committed exchanges never exceeds half the number of distinct (index,
\* shard number) identities of the model, every commit adding two new
\* identities to moved_shards, and a call that commits nothing returns false.
C25_Terminates ==
    /\ CommitBound
    /\ (result # "none" /\ result # "true") => result = "false"

\* C26 (one move per identity): within one planning run no (index, shard
\* number) identity is named by more than one move command of the
\* operations list; in particular the two shards of a committed exchange
\* are never two copies of one shard.
C26_OneMovePerIdentity ==
    \A j, k \in 1..Len(operations) :
        j # k => <<operations[j].index, operations[j].shard>>
                    # <<operations[k].index, operations[k].shard>>

\* the pair p is a shard and a smaller copy of it, which every test but
\* the rack test would let through, on the placement N
OnlyCopies(N, p) ==
    /\ Ident(p[2]) = Ident(p[4])
    /\ p[4].store < p[2].store
    /\ ~NotWorthSwapping(p[2], p[4], shard_fraction_threshold)
    /\ ~FracClose(N[p[1]], N[p[3]], node_fraction_threshold)
    /\ ~TooBig(N, p[1], p[2], p[3], p[4])

\* two exchanges were planned on a fleet whose first scan met a primary and
\* its replica that only the rack test kept from being exchanged
C26_Witness ==
    /\ Len(operations) >= 4
    /\ \A N \in {InitialNodes} :
        \A pairs \in {ScanPairs(N, SortNodes(N, Plan__init__(es.raw_nodes,
                            es.raw_shards, "hot").order), {}, node_fraction_threshold)} :
            \E k \in 1..Len(pairs) : OnlyCopies(N, pairs[k])

\* the number of records equal to x held in the whole fleet
FleetCount(N, x) == Cardinality({p \in AllPlaces(N) : N[p[1]].shards[p[2]] = x})

\* the sum of used over all nodes
RECURSIVE TotalUsed(_, _)
TotalUsed(N, S) ==
    IF S = {} THEN 0
    ELSE LET nm == CHOOSE x \in S : TRUE
         IN  N[nm].used + TotalUsed(N, S \ {nm})

\* C27 (conservation): over any sequence of plan_step calls the multiset
\* of shard records of the whole fleet is the one the planner was
\* constructed with, every node holds as many shards as it started with,
\* and the sum of used over all nodes is the one it started with.
C27_Conservation ==
    \A N0 \in {InitialNodes} :
        /\ DOMAIN nodes = DOMAIN N0
        /\ \A p \in AllPlaces(N0) \cup AllPlaces(nodes) :
                \A x \in {IF p \in AllPlaces(N0) THEN N0[p[1]].shards[p[2]]
                                                 ELSE nodes[p[1]].shards[p[2]]} :
                    FleetCount(nodes, x) = FleetCount(N0, x)
        /\ \A nm \in DOMAIN nodes : Len(nodes[nm].shards) = Len(N0[nm].shards)
        /\ TotalUsed(nodes, DOMAIN nodes) = TotalUsed(N0, DOMAIN N0)

\* an exchange was planned, and a later call made, on a fleet in which a
\* relocating shard is held as one record on two nodes, one of them a node
\* of the exchange
C27_Witness ==
    /\ operations # <<>>
    /\ prev = "true"
    /\ \E p, q \in AllPlaces(nodes) :
            /\ p[1] # q[1]
            /\ nodes[p[1]].shards[p[2]] = nodes[q[1]].shards[q[2]]
            /\ p[1] \in {operations[1].from_node, operations[1].to_node}

\* the step is a call of exec
ExecCalled == reroute'.calls = reroute.calls + 1

\* C28 (exec clears the list): a call of exec submits the operations list
\* as it stands; when it returns successfully, with dry_run or without, the
\* operations list is empty afterwards while the node model and
\* moved_shards are the planned ones; so an exec that follows a successful
\* dry run, with no exchange planned in between, submits no command.
C28_ExecClears ==
    [][ExecCalled =>
        /\ reroute'.commands = operations
        /\ reroute'.accepted =>
                /\ operations' = <<>>
                /\ UNCHANGED <<nodes, nodes_by_size, moved_shards>>
        /\ (reroute.calls >= 1 /\ reroute.accepted /\ reroute.dry_run
                /\ operations = <<>>)
            => reroute'.commands = <<>>]_vars

\* a dry run of a plan of two exchanges was accepted: the commands were
\* submitted, the list is empty, and the model is the planned one
C28_Witness ==
    /\ reroute.calls = 1
    /\ reroute.dry_run
    /\ reroute.accepted
    /\ Len(reroute.commands) >= 4
    /\ operations = <<>>
    /\ Cardinality(moved_shards) >= 4
    /\ \E nm \in DOMAIN nodes : ~SameShards(nodes[nm].shards, InitialNodes[nm].shards)

\* C29 (no division by zero): every pair that plan_step hands to
\* can_exchange_shards has a big shard of size above zero and a strictly
\* smaller small shard, so the division of the size test never fails and no
\* call of plan_step on a fleet with nodes raises, even when the model
\* holds shards of size zero.
C29_NoZeroDivision ==
    /\ \A pairs \in {ScanPairsNow} :
            \A k \in 1..Len(pairs) :
                ~SizeSkipped(pairs[k]) =>
                    /\ pairs[k][2].store > 0
                    /\ pairs[k][4].store < pairs[k][2].store
                    /\ ~can_exchange_raises(pairs[k][1], pairs[k][2],
                                            pairs[k][3], pairs[k][4])
    /\ nodes_by_size # <<>> => result # "raised"

\* a call went through all pairs of a fleet in which two movable shards of
\* size zero on different nodes make a pair, and a shard of size zero makes
\* a pair with a big shard above zero
C29_Witness ==
    /\ result = "false"
    /\ \A pairs \in {ScanPairsNow} :
            /\ \E k \in 1..Len(pairs) :
                    pairs[k][2].store = 0 /\ pairs[k][4].store = 0
            /\ \E k \in 1..Len(pairs) :
                    pairs[k][2].store > 0 /\ pairs[k][4].store = 0

====
